---- MODULE Spec2Model ----
\* Model of src/src/expressions.ts: the recursive resolution of a Glimmer
\* (Handlebars) tree into a Babel/JSX tree.  Every exported function is a
\* pure function; it is modelled as an operator computed the way the code
\* computes it, and one action per exported function applies it to an input
\* drawn from a bounded set of trees.
\*
\* Representation:
\*   - a JS string is a tuple of one-character strings (<<"a", "{">>);
\*   - a Glimmer or Babel node is a record with a "type" field;
\*   - a JS array is the record JSArray(items), so that Array.isArray is
\*     a test of the "type" field like any other;
\*   - a call either returns or throws: Ok(v) / Err(e).
EXTENDS Integers, Sequences, FiniteSets, TLC

VARIABLES pc, fn, arg, ret

vars == <<pc, fn, arg, ret>>

-----------------------------------------------------------------------------
\* Bounds of the explored inputs.

MaxTextLen == 4
MaxParts == 3
MaxParams == 2
MaxPairs == 2
MaxBody == 3

-----------------------------------------------------------------------------
\* Generic helpers.

SeqsUpTo(S, n) == UNION {[1..k -> S] : k \in 0..n}

Ok(v) == [ok |-> TRUE, val |-> v]
Err(e) == [ok |-> FALSE, err |-> e]

JSArray(items) == [type |-> "Array", items |-> items]
isArray(v) == v.type = "Array"

\* The first index of a sequence of results that is a throw, 0 when none is.
FirstErr(rs) ==
  IF \E i \in DOMAIN rs : ~rs[i].ok
    THEN CHOOSE i \in DOMAIN rs : ~rs[i].ok /\ \A j \in 1..(i-1) : rs[j].ok
    ELSE 0

\* JS strings used by the code.
sUndefined == <<"u", "n", "d", "e", "f", "i", "n", "e", "d">>
sHash == <<"h", "a", "s", "h">>
sThis == <<"t", "h", "i", "s">>
sTrue == <<"t", "r", "u", "e">>
sFalse == <<"f", "a", "l", "s", "e">>
sPlus == <<"+">>
sA == <<"a">>
sB == <<"b">>
sK == <<"k">>
sJ == <<"j">>

\* The messages of the four throws.
EmptyPartsError == "Unexpected empty expression parts"
TopLevelCommentError == "Top level comments currently is not supported"
UnexpectedStatementError == "Unexpected expression"
UnexpectedExpressionError == "Unexpected mustache statement"

-----------------------------------------------------------------------------
\* Babel node builders (@babel/types), as the code calls them.

identifier(name) == [type |-> "Identifier", name |-> name]
stringLiteral(value) == [type |-> "StringLiteral", value |-> value]
numericLiteral(value) == [type |-> "NumericLiteral", value |-> value]
booleanLiteral(value) == [type |-> "BooleanLiteral", value |-> value]
nullLiteral == [type |-> "NullLiteral"]
memberExpression(object, property) ==
  [type |-> "MemberExpression", object |-> object, property |-> property]
callExpression(callee, arguments) ==
  [type |-> "CallExpression", callee |-> callee, arguments |-> arguments]
objectExpression(properties) ==
  [type |-> "ObjectExpression", properties |-> properties]
objectProperty(key, value) ==
  [type |-> "ObjectProperty", key |-> key, value |-> value]
binaryExpression(operator, left, right) ==
  [type |-> "BinaryExpression", operator |-> operator, left |-> left, right |-> right]
jsxText(value) == [type |-> "JSXText", value |-> value]
jsxExpressionContainer(expression) ==
  [type |-> "JSXExpressionContainer", expression |-> expression]

\* The value null (the initial accumulator of createConcat).
JSNull == [type |-> "null"]

-----------------------------------------------------------------------------
\* Glimmer input nodes.

\* PathExpression.original is the source text of the path: the segments
\* joined by ".", and "this" for the path with no segments.
RECURSIVE JoinDots(_)
JoinDots(parts) ==
  IF Len(parts) = 0 THEN <<>>
  ELSE IF Len(parts) = 1 THEN parts[1]
  ELSE parts[1] \o <<".">> \o JoinDots(Tail(parts))

PathExpression(parts) ==
  [type |-> "PathExpression", parts |-> parts,
   original |-> IF parts = <<>> THEN sThis ELSE JoinDots(parts)]
BooleanLiteral(v) == [type |-> "BooleanLiteral", value |-> v]
NullLiteral == [type |-> "NullLiteral"]
NumberLiteral(v) == [type |-> "NumberLiteral", value |-> v]
StringLiteral(v) == [type |-> "StringLiteral", value |-> v]
UndefinedLiteral == [type |-> "UndefinedLiteral"]
SubExpression(path, params, pairs) ==
  [type |-> "SubExpression", path |-> path, params |-> params,
   hash |-> [pairs |-> pairs]]
\* A node of a type resolveExpression has no case for.
OtherExpression == [type |-> "Hash"]

HashPair(key, value) == [key |-> key, value |-> value]

ElementNode(tag) == [type |-> "ElementNode", tag |-> tag]
TextNode(chars) == [type |-> "TextNode", chars |-> chars]
MustacheStatement(path, params, pairs) ==
  [type |-> "MustacheStatement", path |-> path, params |-> params,
   hash |-> [pairs |-> pairs]]
BlockStatement(name) == [type |-> "BlockStatement", name |-> name]
MustacheCommentStatement(value) ==
  [type |-> "MustacheCommentStatement", value |-> value]
CommentStatement(value) == [type |-> "CommentStatement", value |-> value]
\* A node of a type resolveStatement has no case for.
OtherStatement == [type |-> "Template"]

-----------------------------------------------------------------------------
\* External collaborators (./elements, ./blockStatements, ./comments): each
\* returns one output node built from its argument.

convertElement(statement) == Ok([type |-> "JSXElement", of |-> statement])
resolveBlockStatement(statement) == Ok([type |-> "BlockResult", of |-> statement])
createComment(statement) == [type |-> "JSXComment", of |-> statement]
createFragment(children) == [type |-> "JSXFragment", children |-> children]

-----------------------------------------------------------------------------
\* Path Builder.

appendToPath(path, append) == memberExpression(path, append)

prependToPath(path, prepend) == memberExpression(prepend, path)

\* The loop of createPath: acc after segments 1..i have been consumed.
RECURSIVE createPathLoop(_, _, _)
createPathLoop(parts, i, acc) ==
  IF i > Len(parts) THEN acc
  ELSE createPathLoop(parts, i + 1, appendToPath(acc, identifier(parts[i])))

\* Mutant: an empty segment list defaults to the identifier undefined
\* instead of throwing.
createPathDefaulted(pathExpression) ==
  LET parts == pathExpression.parts IN
  IF Len(parts) = 0 THEN Ok(identifier(sUndefined))
  ELSE Ok(createPathLoop(parts, 2, identifier(parts[1])))

createPath(pathExpression) ==
  LET parts == pathExpression.parts IN
  IF Len(parts) = 0 THEN Err(EmptyPartsError)
  ELSE Ok(createPathLoop(parts, 2, identifier(parts[1])))

-----------------------------------------------------------------------------
\* Expression Resolver and Helper-Call Resolver.

Digits == <<"0", "1", "2", "3", "4", "5", "6", "7", "8", "9">>

\* expression.path.original?.toString() ?? 'undefined'.  A path's original
\* is its source text and a literal's original is its value; null, undefined
\* and a node with no original field give 'undefined'.
calleeName(path) ==
  CASE path.type = "PathExpression" -> path.original
    [] path.type = "StringLiteral" -> path.value
    [] path.type = "NumberLiteral" -> <<Digits[path.value + 1]>>
    [] path.type = "BooleanLiteral" -> (IF path.value THEN sTrue ELSE sFalse)
    [] OTHER -> sUndefined

RECURSIVE resolveExpression(_), resolveHelper(_)

resolveExpression(expression) ==
  CASE expression.type = "SubExpression" -> resolveHelper(expression)
    [] expression.type = "PathExpression" -> createPath(expression)
    [] expression.type = "BooleanLiteral" -> Ok(booleanLiteral(expression.value))
    [] expression.type = "NullLiteral" -> Ok(nullLiteral)
    [] expression.type = "NumberLiteral" -> Ok(numericLiteral(expression.value))
    [] expression.type = "StringLiteral" -> Ok(stringLiteral(expression.value))
    [] expression.type = "UndefinedLiteral" -> Ok(identifier(sUndefined))
    [] OTHER -> Err(UnexpectedExpressionError)

\* Mutant: the named arguments are passed as the last argument directly,
\* not under the key "hash".
helperOptionsUnwrapped(properties) == objectExpression(properties)

\* The last argument of every helper call: { "hash": { ...pairs } }.
helperOptions(properties) ==
  objectExpression(<<objectProperty(stringLiteral(sHash), objectExpression(properties))>>)

resolveHelper(expression) ==
  LET ps == [i \in DOMAIN expression.params |-> resolveExpression(expression.params[i])]
      pe == FirstErr(ps)
      hs == [i \in DOMAIN expression.hash.pairs |->
               resolveExpression(expression.hash.pairs[i].value)]
      he == FirstErr(hs)
  IN
  IF pe # 0 THEN ps[pe]
  ELSE IF he # 0 THEN hs[he]
  ELSE
    LET params == [i \in DOMAIN ps |-> ps[i].val]
        props == [i \in DOMAIN hs |->
                    objectProperty(stringLiteral(expression.hash.pairs[i].key), hs[i].val)]
    IN Ok(callExpression(identifier(calleeName(expression.path)),
                         Append(params, helperOptions(props))))

-----------------------------------------------------------------------------
\* Text Splitter.

\* The length of the match of /(:?{|})/ that starts at position i of text,
\* 0 when there is none: an optional ":" followed by "{", or "}".
matchAt(text, i) ==
  IF text[i] = ":" /\ i + 1 <= Len(text) /\ text[i + 1] = "{" THEN 2
  ELSE IF text[i] = "{" \/ text[i] = "}" THEN 1
  ELSE 0

\* text.split(/(:?{|})/) from position i on, cur being the piece collected
\* since the last match: the pieces between matches, each followed by the
\* text its capture group matched.
RECURSIVE splitFrom(_, _, _)
splitFrom(text, i, cur) ==
  IF i > Len(text) THEN <<cur>>
  ELSE LET m == matchAt(text, i) IN
    IF m = 0 THEN splitFrom(text, i + 1, Append(cur, text[i]))
    ELSE <<cur, SubSeq(text, i, i + m - 1)>> \o splitFrom(text, i + m, <<>>)

split(text) == splitFrom(text, 1, <<>>)

prepareJsxTextItem(item) ==
  IF item = <<"{">> \/ item = <<"}">>
    THEN jsxExpressionContainer(stringLiteral(item))
    ELSE jsxText(item)

prepareJsxText(text) ==
  LET parts == split(text) IN
  IF Len(parts) = 1 THEN jsxText(text)
  ELSE JSArray([i \in DOMAIN parts |-> prepareJsxTextItem(parts[i])])

-----------------------------------------------------------------------------
\* Statement Resolver and Child Resolver.

\* Mutant: every interpolation is resolved as a helper invocation.
resolveStatementAlwaysHelper(statement) ==
  CASE statement.type = "ElementNode" -> convertElement(statement)
    [] statement.type = "TextNode" -> Ok(stringLiteral(statement.chars))
    [] statement.type = "MustacheStatement" -> resolveHelper(statement)
    [] statement.type = "BlockStatement" -> resolveBlockStatement(statement)
    [] statement.type \in {"MustacheCommentStatement", "CommentStatement"} ->
         Err(TopLevelCommentError)
    [] OTHER -> Err(UnexpectedStatementError)

resolveStatement(statement) ==
  CASE statement.type = "ElementNode" -> convertElement(statement)
    [] statement.type = "TextNode" -> Ok(stringLiteral(statement.chars))
    [] statement.type = "MustacheStatement" ->
         (IF Len(statement.params) > 0
            THEN resolveHelper(statement)
            ELSE resolveExpression(statement.path))
    [] statement.type = "BlockStatement" -> resolveBlockStatement(statement)
    [] statement.type \in {"MustacheCommentStatement", "CommentStatement"} ->
         Err(TopLevelCommentError)
    [] OTHER -> Err(UnexpectedStatementError)

\* Mutant: no case for comments, which fall to the default branch.
resolveElementChildNoComment(statement) ==
  CASE statement.type = "ElementNode" -> convertElement(statement)
    [] statement.type = "TextNode" -> Ok(prepareJsxText(statement.chars))
    [] OTHER ->
         (LET r == resolveStatement(statement) IN
          IF r.ok THEN Ok(jsxExpressionContainer(r.val)) ELSE r)

resolveElementChild(statement) ==
  CASE statement.type = "ElementNode" -> convertElement(statement)
    [] statement.type = "TextNode" -> Ok(prepareJsxText(statement.chars))
    [] statement.type \in {"MustacheCommentStatement", "CommentStatement"} ->
         Ok(createComment(statement))
    [] OTHER ->
         (LET r == resolveStatement(statement) IN
          IF r.ok THEN Ok(jsxExpressionContainer(r.val)) ELSE r)

-----------------------------------------------------------------------------
\* Children/Concatenation Assembler.

\* Mutant: an array child is pushed as one element, not spread.
createChildrenStepNoSpread(acc, child) == acc \o <<child>>

\* One step of the reduce of createChildren.
createChildrenStep(acc, child) ==
  IF isArray(child) THEN acc \o child.items ELSE acc \o <<child>>

RECURSIVE createChildrenLoop(_, _, _)
createChildrenLoop(body, i, acc) ==
  IF i > Len(body) THEN Ok(JSArray(acc))
  ELSE LET child == resolveElementChild(body[i]) IN
    IF ~child.ok THEN child
    ELSE createChildrenLoop(body, i + 1, createChildrenStep(acc, child.val))

createChildren(body) == createChildrenLoop(body, 1, <<>>)

\* Mutant: a single root node is wrapped in a fragment like any other list.
createRootChildrenAlwaysFragment(body) ==
  LET children == createChildren(body) IN
  IF children.ok THEN Ok(createFragment(children.val)) ELSE children

createRootChildren(body) ==
  IF Len(body) = 1 THEN resolveStatement(body[1])
  ELSE LET children == createChildren(body) IN
    IF children.ok THEN Ok(createFragment(children.val)) ELSE children

\* Mutant: the accumulator is the right operand of "+".
createConcatStepSwapped(acc, item) ==
  LET r == resolveStatement(item) IN
  IF acc = JSNull THEN r
  ELSE IF r.ok THEN Ok(binaryExpression(sPlus, r.val, acc)) ELSE r

\* One step of the reduce of createConcat.
createConcatStep(acc, item) ==
  LET r == resolveStatement(item) IN
  IF acc = JSNull THEN r
  ELSE IF r.ok THEN Ok(binaryExpression(sPlus, acc, r.val)) ELSE r

RECURSIVE createConcatLoop(_, _, _)
createConcatLoop(parts, i, acc) ==
  IF i > Len(parts) THEN Ok(acc)
  ELSE LET r == createConcatStep(acc, parts[i]) IN
    IF ~r.ok THEN r ELSE createConcatLoop(parts, i + 1, r.val)

createConcat(parts) == createConcatLoop(parts, 1, JSNull)

-----------------------------------------------------------------------------
\* The inputs explored.

Names == {sA, sB}
Keys == {sK, sJ}
Chars == {"a", ":", "{", "}"}

Texts == SeqsUpTo(Chars, MaxTextLen)
PathParts == SeqsUpTo(Names, MaxParts)
NonEmptyPathParts == PathParts \ {<<>>}

Literals ==
  {BooleanLiteral(TRUE), BooleanLiteral(FALSE), NullLiteral, NumberLiteral(1),
   StringLiteral(sA), UndefinedLiteral}

\* A sub-expression whose positional argument is a path with no segments.
InnerEmptyArg == SubExpression(PathExpression(<<sA>>), <<PathExpression(<<>>)>>, <<>>)
\* A sub-expression that resolves to the call a(1, { hash: {} }).
InnerCall == SubExpression(PathExpression(<<sA>>), <<NumberLiteral(1)>>, <<>>)

\* The operands of a helper invocation: positional arguments, named-argument
\* values and callee paths.
ArgExprs ==
  {PathExpression(<<>>), PathExpression(<<sA, sB>>), NumberLiteral(1),
   OtherExpression, InnerEmptyArg}
HashValues == {PathExpression(<<>>), NumberLiteral(1)}
HashPairs == {HashPair(k, v) : k \in Keys, v \in HashValues}
Callees ==
  {PathExpression(<<sA>>), PathExpression(<<>>), NumberLiteral(1), UndefinedLiteral,
   InnerCall}

ParamLists == SeqsUpTo(ArgExprs, MaxParams)
PairLists == SeqsUpTo(HashPairs, MaxPairs)

SubExpressions ==
  {SubExpression(c, ps, hs) : c \in Callees, ps \in ParamLists, hs \in PairLists}
MustacheStatements ==
  {MustacheStatement(c, ps, hs) : c \in Callees, ps \in ParamLists, hs \in PairLists}

Expressions ==
  Literals \cup {PathExpression(p) : p \in PathParts} \cup {OtherExpression}
    \cup SubExpressions

Comments == {MustacheCommentStatement(sA), CommentStatement(sA)}

Statements ==
  {ElementNode(sA), BlockStatement(sA), OtherStatement}
    \cup Comments \cup {TextNode(t) : t \in Texts} \cup MustacheStatements

\* The statements that statement lists are built from: one of each type,
\* a text with and without braces, an interpolation that resolves and one
\* that throws.
BodyStatements ==
  {ElementNode(sA), BlockStatement(sA), CommentStatement(sA),
   TextNode(sA), TextNode(<<"{", "a", "}">>),
   MustacheStatement(PathExpression(<<sA>>), <<>>, <<>>),
   MustacheStatement(PathExpression(<<>>), <<>>, <<>>)}
Bodies == SeqsUpTo(BodyStatements, MaxBody)

-----------------------------------------------------------------------------
\* One call of an exported function per behaviour.

Init ==
  /\ pc = "ready"
  /\ fn = "none"
  /\ arg = [none |-> TRUE]
  /\ ret = Ok(JSNull)

Call(name, a, r) ==
  /\ pc' = "done"
  /\ fn' = name
  /\ arg' = a
  /\ ret' = r

CallResolveStatement ==
  /\ pc = "ready"
  /\ \E statement \in Statements :
       Call("resolveStatement", [statement |-> statement], resolveStatement(statement))

CallResolveElementChild ==
  /\ pc = "ready"
  /\ \E statement \in Statements :
       Call("resolveElementChild", [statement |-> statement], resolveElementChild(statement))

CallResolveExpression ==
  /\ pc = "ready"
  /\ \E expression \in Expressions :
       Call("resolveExpression", [expression |-> expression], resolveExpression(expression))

CallResolveHelper ==
  /\ pc = "ready"
  /\ \E expression \in MustacheStatements \cup SubExpressions :
       Call("resolveHelper", [expression |-> expression], resolveHelper(expression))

CallCreatePath ==
  /\ pc = "ready"
  /\ \E parts \in PathParts :
       Call("createPath", [pathExpression |-> PathExpression(parts)],
            createPath(PathExpression(parts)))

\* appendToPath and prependToPath applied to a built path and an identifier.
CallAppendToPath ==
  /\ pc = "ready"
  /\ \E parts \in NonEmptyPathParts, name \in Names :
       LET path == createPath(PathExpression(parts)).val IN
       Call("appendToPath", [path |-> path, append |-> identifier(name)],
            Ok(appendToPath(path, identifier(name))))

CallPrependToPath ==
  /\ pc = "ready"
  /\ \E parts \in NonEmptyPathParts, name \in Names :
       LET path == createPath(PathExpression(parts)).val IN
       Call("prependToPath", [path |-> path, prepend |-> identifier(name)],
            Ok(prependToPath(path, identifier(name))))

CallCreateChildren ==
  /\ pc = "ready"
  /\ \E body \in Bodies : Call("createChildren", [body |-> body], createChildren(body))

CallCreateRootChildren ==
  /\ pc = "ready"
  /\ \E body \in Bodies : 
       Call("createRootChildren", [body |-> body], createRootChildren(body))

CallCreateConcat ==
  /\ pc = "ready"
  /\ \E parts \in Bodies : Call("createConcat", [parts |-> parts], createConcat(parts))

CallPrepareJsxText ==
  /\ pc = "ready"
  /\ \E text \in Texts : Call("prepareJsxText", [text |-> text], Ok(prepareJsxText(text)))

Next ==
  \/ CallResolveStatement
  \/ CallResolveElementChild
  \/ CallResolveExpression
  \/ CallResolveHelper
  \/ CallCreatePath
  \/ CallAppendToPath
  \/ CallPrependToPath
  \/ CallCreateChildren
  \/ CallCreateRootChildren
  \/ CallCreateConcat
  \/ CallPrepareJsxText

Spec == Init /\ [][Next]_vars

-----------------------------------------------------------------------------
\* Text Splitter properties.

IsBrace(c) == c = "{" \/ c = "}"
BraceCount(text) == Cardinality({i \in DOMAIN text : IsBrace(text[i])})
HasBrace(text) == \E i \in DOMAIN text : IsBrace(text[i])

\* The pieces prepareJsxText returned, as a sequence.
Pieces(r) == IF isArray(r) THEN r.items ELSE <<r>>

\* The characters a piece stands for.
PieceContent(n) == IF n.type = "JSXText" THEN n.value ELSE n.expression.value

RECURSIVE ConcatContents(_)
ConcatContents(ns) ==
  IF ns = <<>> THEN <<>> ELSE PieceContent(Head(ns)) \o ConcatContents(Tail(ns))

IsBraceContainer(n) ==
  /\ n.type = "JSXExpressionContainer"
  /\ n.expression.type = "StringLiteral"
  /\ Len(n.expression.value) = 1
  /\ IsBrace(n.expression.value[1])

\* C1: for every raw string with at least one "{" or "}", prepareJsxText
\* returns a sequence with one expression container per occurrence of "{" or
\* "}", each wrapping a string literal of exactly that character; every other
\* piece is a JSXText, and no JSXText contains "{" or "}".
C1_BracesEscaped ==
  (fn = "prepareJsxText" /\ HasBrace(arg.text)) =>
    /\ isArray(ret.val)
    /\ LET ns == ret.val.items IN
       /\ Cardinality({i \in DOMAIN ns : ns[i].type = "JSXExpressionContainer"})
            = BraceCount(arg.text)
       /\ \A i \in DOMAIN ns :
            \/ IsBraceContainer(ns[i])
            \/ /\ ns[i].type = "JSXText"
               /\ ~HasBrace(ns[i].value)

\* C8: the contents of the returned pieces, concatenated in order, are the
\* raw string; a string with no "{" or "}" yields one JSXText holding it; and
\* a string with k occurrences of "{" or "}" yields 2k+1 pieces alternating
\* JSXText, container, JSXText (empty JSXText pieces kept).
C8_PositionFaithful ==
  fn = "prepareJsxText" =>
    LET ns == Pieces(ret.val)
        k == BraceCount(arg.text)
    IN
    /\ ConcatContents(ns) = arg.text
    /\ (k = 0 => ret.val = jsxText(arg.text))
    /\ Len(ns) = 2 * k + 1
    /\ \A i \in DOMAIN ns :
         IF i % 2 = 1 THEN ns[i].type = "JSXText" ELSE IsBraceContainer(ns[i])

-----------------------------------------------------------------------------
\* Helper-Call Resolver properties.

AllResolve(exprs) == \A i \in DOMAIN exprs : resolveExpression(exprs[i]).ok

\* C2: the call resolveHelper produces for n positional and m named
\* arguments has exactly n+1 arguments: the n positional arguments resolved
\* by resolveExpression in input order, then a record with the single
\* property "hash" whose value is a record of exactly m properties, the i-th
\* keyed by the i-th pair's key and holding its resolved value ({ hash: {} }
\* when m = 0).
C2_HelperCallShape ==
  (fn = "resolveHelper" /\ ret.ok) =>
    LET params == arg.expression.params
        pairs == arg.expression.hash.pairs
        n == Len(params)
        m == Len(pairs)
        call == ret.val
    IN
    /\ call.type = "CallExpression"
    /\ Len(call.arguments) = n + 1
    /\ \A i \in 1..n : Ok(call.arguments[i]) = resolveExpression(params[i])
    /\ LET options == call.arguments[n + 1] IN
       /\ options.type = "ObjectExpression"
       /\ Len(options.properties) = 1
       /\ options.properties[1].type = "ObjectProperty"
       /\ options.properties[1].key = stringLiteral(sHash)
       /\ LET hash == options.properties[1].value IN
          /\ hash.type = "ObjectExpression"
          /\ Len(hash.properties) = m
          /\ \A i \in 1..m :
               /\ hash.properties[i].type = "ObjectProperty"
               /\ hash.properties[i].key = stringLiteral(pairs[i].key)
               /\ Ok(hash.properties[i].value) = resolveExpression(pairs[i].value)

\* A call with two positional and two differently keyed named arguments.
C2_Witness ==
  /\ fn = "resolveHelper"
  /\ ret.ok
  /\ Len(arg.expression.params) = 2
  /\ arg.expression.params[1] # arg.expression.params[2]
  /\ Len(arg.expression.hash.pairs) = 2
  /\ arg.expression.hash.pairs[1].key # arg.expression.hash.pairs[2].key

-----------------------------------------------------------------------------
\* Rejection of a path with no segments.

IsEmptyPath(e) == e.type = "PathExpression" /\ Len(e.parts) = 0

\* An expression in which a path with no segments stands at a position
\* resolveExpression passes to createPath: the expression itself, or a
\* positional argument or named-argument value of a sub-expression in it.
RECURSIVE ReadsEmptyPath(_)
ReadsEmptyPath(e) ==
  \/ IsEmptyPath(e)
  \/ /\ e.type = "SubExpression"
     /\ \/ \E i \in DOMAIN e.params : ReadsEmptyPath(e.params[i])
        \/ \E i \in DOMAIN e.hash.pairs : ReadsEmptyPath(e.hash.pairs[i].value)

\* The same, counting also the path that names the callee of a helper
\* invocation.
RECURSIVE ReadsEmptyPathOrCallee(_)
ReadsEmptyPathOrCallee(e) ==
  \/ IsEmptyPath(e)
  \/ /\ e.type = "SubExpression"
     /\ \/ IsEmptyPath(e.path)
        \/ \E i \in DOMAIN e.params : ReadsEmptyPathOrCallee(e.params[i])
        \/ \E i \in DOMAIN e.hash.pairs : ReadsEmptyPathOrCallee(e.hash.pairs[i].value)

\* A node of a type resolveExpression has no case for, at a position read.
RECURSIVE ReadsUnknown(_)
ReadsUnknown(e) ==
  \/ e = OtherExpression
  \/ /\ e.type = "SubExpression"
     /\ \/ \E i \in DOMAIN e.params : ReadsUnknown(e.params[i])
        \/ \E i \in DOMAIN e.hash.pairs : ReadsUnknown(e.hash.pairs[i].value)

\* A helper invocation (interpolation or sub-expression) seen as the
\* sub-expression resolveHelper reads it as.
AsSubExpression(h) == SubExpression(h.path, h.params, h.hash.pairs)

\* The expression a call of one of the four resolvers reads, when it reads
\* one: resolveExpression's argument, resolveHelper's invocation, and for
\* the two statement resolvers an interpolation's target (no positional
\* arguments) or the interpolation as a helper invocation.
ReadsExpression ==
  \/ fn \in {"resolveExpression", "resolveHelper"}
  \/ /\ fn \in {"resolveStatement", "resolveElementChild"}
     /\ arg.statement.type = "MustacheStatement"

ExpressionRead ==
  CASE fn = "resolveExpression" -> arg.expression
    [] fn = "resolveHelper" -> AsSubExpression(arg.expression)
    [] OTHER ->
         IF Len(arg.statement.params) > 0
           THEN AsSubExpression(arg.statement)
           ELSE arg.statement.path

\* C3 as stated: a path with no segments at any position read, the callee
\* path of a helper invocation included, makes the call fail with the
\* empty-path error (checked on inputs made of recognised node types only).
C3_EmptyPathAlwaysRejected ==
  (/\ ReadsExpression
   /\ ~ReadsUnknown(ExpressionRead)
   /\ ReadsEmptyPathOrCallee(ExpressionRead))
    => ret = Err(EmptyPartsError)

\* C3 amended: a path with no segments as interpolation target, positional
\* argument or named-argument value (at any depth) makes the call fail, and
\* with the empty-path error when no node of an unrecognised type is read;
\* a path with no segments naming the callee of a helper invocation is not
\* rejected: the call is produced with the path's source text as callee.
C3_EmptyPathRejectedExceptCallee ==
  /\ (ReadsExpression /\ ReadsEmptyPath(ExpressionRead)) =>
       /\ ~ret.ok
       /\ ~ReadsUnknown(ExpressionRead) => ret = Err(EmptyPartsError)
  /\ (/\ fn = "resolveHelper"
      /\ IsEmptyPath(arg.expression.path)
      /\ AllResolve(arg.expression.params)
      /\ AllResolve([i \in DOMAIN arg.expression.hash.pairs |->
                       arg.expression.hash.pairs[i].value])) =>
       /\ ret.ok
       /\ ret.val.callee = identifier(arg.expression.path.original)

\* An interpolation with positional arguments that all resolve, failing on
\* the path with no segments that is the value of its second named argument.
C3_Witness ==
  /\ fn = "resolveStatement"
  /\ arg.statement.type = "MustacheStatement"
  /\ Len(arg.statement.params) > 0
  /\ AllResolve(arg.statement.params)
  /\ Len(arg.statement.hash.pairs) = 2
  /\ resolveExpression(arg.statement.hash.pairs[1].value).ok
  /\ IsEmptyPath(arg.statement.hash.pairs[2].value)
  /\ ret = Err(EmptyPartsError)

-----------------------------------------------------------------------------
\* Statement Resolver and Child Resolver properties.

IsComment(statement) ==
  statement.type \in {"MustacheCommentStatement", "CommentStatement"}

\* C4: on a comment node of either variant resolveStatement fails with the
\* top-level-comment error, while resolveElementChild on the same node
\* returns createComment's result (it cannot have gone through
\* resolveStatement, which throws on the node).
C4_CommentAsymmetry ==
  /\ (fn = "resolveStatement" /\ IsComment(arg.statement)) =>
       ret = Err(TopLevelCommentError)
  /\ (fn = "resolveElementChild" /\ IsComment(arg.statement)) =>
       /\ ret = Ok(createComment(arg.statement))
       /\ resolveStatement(arg.statement) = Err(TopLevelCommentError)

C4_Witness ==
  /\ fn = "resolveElementChild"
  /\ arg.statement.type = "MustacheCommentStatement"
  /\ ret.ok
  /\ ret.val.type = "JSXComment"

\* C9 as stated: resolveStatement on an interpolation yields a call exactly
\* when the interpolation has a positional argument; with none the result is
\* resolveExpression of its target and no call is produced.
C9_CallIffPositional ==
  (/\ fn = "resolveStatement"
   /\ arg.statement.type = "MustacheStatement"
   /\ ret.ok) =>
    /\ (ret.val.type = "CallExpression") <=> (Len(arg.statement.params) > 0)
    /\ Len(arg.statement.params) = 0 => ret = resolveExpression(arg.statement.path)

\* C9 amended: resolveStatement applies resolveHelper to the interpolation
\* itself exactly when it has a positional argument; with none the result is
\* resolveExpression of its target whatever its named arguments (the result
\* is the one of the same interpolation without them), so a call is produced
\* only when the target is itself a sub-expression, and then from the
\* sub-expression's own callee and arguments.
C9_InterpolationDispatch ==
  (fn = "resolveStatement" /\ arg.statement.type = "MustacheStatement") =>
    LET st == arg.statement IN
    IF Len(st.params) > 0
      THEN /\ ret = resolveHelper(st)
           /\ ret.ok =>
                /\ ret.val.type = "CallExpression"
                /\ ret.val.callee = identifier(calleeName(st.path))
                /\ Len(ret.val.arguments) = Len(st.params) + 1
      ELSE /\ ret = resolveExpression(st.path)
           /\ ret = resolveStatement(MustacheStatement(st.path, <<>>, <<>>))
           /\ (ret.ok /\ st.path.type # "SubExpression") =>
                ret.val.type # "CallExpression"
           /\ (ret.ok /\ st.path.type = "SubExpression") =>
                /\ ret.val.type = "CallExpression"
                /\ ret.val.callee = identifier(calleeName(st.path.path))
                /\ Len(ret.val.arguments) = Len(st.path.params) + 1

\* An interpolation with named arguments and no positional ones whose target
\* is a sub-expression: the result is the sub-expression's call.
C9_Witness ==
  /\ fn = "resolveStatement"
  /\ arg.statement.type = "MustacheStatement"
  /\ Len(arg.statement.params) = 0
  /\ Len(arg.statement.hash.pairs) > 0
  /\ arg.statement.path.type = "SubExpression"
  /\ ret.ok
  /\ ret.val.type = "CallExpression"

-----------------------------------------------------------------------------
\* Path Builder properties.

\* The left-associative member-access chain over a non-empty segment list:
\* the chain over all but the last segment, then the last as property.
RECURSIVE Chain(_)
Chain(segments) ==
  IF Len(segments) = 1 THEN identifier(segments[1])
  ELSE memberExpression(Chain(SubSeq(segments, 1, Len(segments) - 1)),
                        identifier(segments[Len(segments)]))

\* The segments of a built path, innermost object first.
RECURSIVE Segments(_)
Segments(path) ==
  IF path.type = "Identifier" THEN <<path.name>>
  ELSE Segments(path.object) \o <<path.property.name>>

\* C7: createPath yields the left-associative chain over a non-empty segment
\* list and fails on the empty one; appending x to createPath(s) equals
\* createPath(s ++ [x]); prepending h to createPath(s) equals
\* createPath([h] ++ s).
C7_PathBuilder ==
  /\ fn = "createPath" =>
       IF Len(arg.pathExpression.parts) = 0
         THEN ret = Err(EmptyPartsError)
         ELSE ret = Ok(Chain(arg.pathExpression.parts))
  /\ fn = "appendToPath" =>
       ret = createPath(PathExpression(Segments(arg.path) \o <<arg.append.name>>))
  /\ fn = "prependToPath" =>
       ret = createPath(PathExpression(<<arg.prepend.name>> \o Segments(arg.path)))

-----------------------------------------------------------------------------
\* Children/Concatenation Assembler properties.

\* The elements one resolved child contributes.
Contribution(child) == IF isArray(child) THEN child.items ELSE <<child>>

RECURSIVE Flatten(_)
Flatten(children) ==
  IF children = <<>> THEN <<>>
  ELSE Contribution(Head(children)) \o Flatten(Tail(children))

\* C10: createChildren returns the in-order concatenation of what each
\* node's resolveElementChild result contributes (all elements of a
\* sequence result, one element otherwise); the output is flat, empty for
\* an empty list, and a failure on a node is the failure of the whole call.
C10_ChildrenFlattened ==
  fn = "createChildren" =>
    LET rs == [i \in DOMAIN arg.body |-> resolveElementChild(arg.body[i])] IN
    IF FirstErr(rs) # 0
      THEN ret = rs[FirstErr(rs)]
      ELSE /\ ret.ok
           /\ isArray(ret.val)
           /\ ret.val.items = Flatten([i \in DOMAIN rs |-> rs[i].val])
           /\ \A i \in DOMAIN ret.val.items : ~isArray(ret.val.items[i])
           /\ arg.body = <<>> => ret.val.items = <<>>

\* A list in which a text with braces stands between two other nodes.
C10_Witness ==
  /\ fn = "createChildren"
  /\ Len(arg.body) = 3
  /\ arg.body[1].type # "TextNode"
  /\ arg.body[2].type = "TextNode"
  /\ HasBrace(arg.body[2].chars)
  /\ ret.ok
  /\ Len(ret.val.items) > 3

\* C5: createRootChildren on a list of exactly one node gives exactly what
\* resolveStatement gives on the node (a text is not brace-split, a comment
\* fails); on any other list, the empty one included, it gives
\* createFragment of createChildren of the list.
C5_RootResolution ==
  fn = "createRootChildren" =>
    IF Len(arg.body) = 1
      THEN /\ ret = resolveStatement(arg.body[1])
           /\ arg.body[1].type = "TextNode" =>
                ret = Ok(stringLiteral(arg.body[1].chars))
           /\ IsComment(arg.body[1]) => ret = Err(TopLevelCommentError)
      ELSE LET children == createChildren(arg.body) IN
           IF children.ok
             THEN ret = Ok(createFragment(children.val))
             ELSE ret = children

\* A single text with braces at the root, returned as one string literal.
C5_Witness ==
  /\ fn = "createRootChildren"
  /\ Len(arg.body) = 1
  /\ arg.body[1].type = "TextNode"
  /\ HasBrace(arg.body[1].chars)
  /\ ret.ok
  /\ ret.val.type = "StringLiteral"

\* ((v1 + v2) + ...) + vn over a non-empty sequence of values.
RECURSIVE LeftSum(_)
LeftSum(vs) ==
  IF Len(vs) = 1 THEN vs[1]
  ELSE binaryExpression(sPlus, LeftSum(SubSeq(vs, 1, Len(vs) - 1)), vs[Len(vs)])

\* C6: createConcat of parts p1..pn (n >= 1) is the left-to-right fold
\* ((r(p1) + r(p2)) + ...) + r(pn), r being resolveStatement, each part
\* appearing once and in input order; for n = 1 it is r(p1) with no "+".
\* A part that fails to resolve fails the call.
C6_ConcatLeftFold ==
  (fn = "createConcat" /\ Len(arg.parts) >= 1) =>
    LET rs == [i \in DOMAIN arg.parts |-> resolveStatement(arg.parts[i])] IN
    IF FirstErr(rs) # 0
      THEN ret = rs[FirstErr(rs)]
      ELSE /\ ret = Ok(LeftSum([i \in DOMAIN rs |-> rs[i].val]))
           /\ Len(arg.parts) = 1 => ret = rs[1]

\* Three parts that resolve to three different values.
C6_Witness ==
  /\ fn = "createConcat"
  /\ Len(arg.parts) = 3
  /\ arg.parts[1] # arg.parts[2]
  /\ arg.parts[2] # arg.parts[3]
  /\ arg.parts[1] # arg.parts[3]
  /\ ret.ok
  /\ ret.val.type = "BinaryExpression"
  /\ ret.val.left.type = "BinaryExpression"

====
